---------------------------- MODULE Spec2Model ----------------------------
(***************************************************************************)
(* Model of the assessment / answer-key / submission grading back end      *)
(* (src/src/server.js).  The file holds two designs of the server:         *)
(*   - lines 1..835:    the token-role design  (signToken embeds the role, *)
(*                      auth + onlyProfessor trust the token's role);      *)
(*   - lines 837..1437: the store-role design  (signToken embeds the uid   *)
(*                      only, authRequired re-reads the user document).    *)
(* The variable `variant` selects the design; it never changes.            *)
(*                                                                         *)
(* A handler is split into steps only at an await that separates a read    *)
(* of a collection from a later write (the key lookup and the insert of a  *)
(* submission); every other handler is one step.  `resp` is the response   *)
(* emitted by the step just taken (NoResp when the step emitted none).     *)
(***************************************************************************)
EXTENDS Naturals, Sequences, FiniteSets, TLC

VARIABLES
    variant,      \* "token" | "store": which design of server.js runs
    users,        \* User collection: sequence of documents, _id = position
    issued,       \* the bearer tokens signed so far with JWT_SECRET
    assessments,  \* Assessment collection, in insertion order
    keys,         \* AnswerKey collection, in insertion order
    subs,         \* StudentAnswer collection, in insertion order
    forms,        \* Form collection, in insertion order
    nextId,       \* the next Assessment _id (ObjectIds are never reused)
    now,          \* the clock that stamps createdAt (Date.now()); it advances
                  \* between any two inserts that are stamped
    inflight,     \* submissions between their key lookup and their insert
    resp          \* the response emitted by the last step

vars == <<variant, users, issued, assessments, keys, subs, forms, nextId,
          now, inflight, resp>>

collections == <<assessments, keys, subs, forms>>

-----------------------------------------------------------------------------
(* Bounds of the model *)

MaxAssess == 1      \* Assessment documents ever created
MaxKeys == 2        \* AnswerKey documents stored or about to be, at a time
MaxSubs == 2        \* StudentAnswer documents stored or about to be

-----------------------------------------------------------------------------
(* JavaScript values *)

Undefined == "undefined"     \* the value of an absent field, Map.get miss
Null == "null"               \* role: null (store-role UserSchema default)
Letters == {"A", "B"}        \* the choices exercised, a subset of A..E
Enum == {"A", "B", "C", "D", "E"}
Subject == "Fisica"

Q(n) == [number |-> n, subject |-> Subject]
K(n, c) == [questionNumber |-> n, correctAnswer |-> c]
\* a client's answer item; isCorrect is what the client claims
Item(n, a, c) ==
    [questionNumber |-> n, answer |-> a, isCorrect |-> c,
     subject |-> Undefined]

Range(s) == {s[i] : i \in 1..Len(s)}

RECURSIVE SelectSeqBy(_, _, _)
\* s.filter(x => x[field] = v), order kept
SelectSeqBy(s, field, v) ==
    IF s = <<>> THEN <<>>
    ELSE IF Head(s)[field] = v
         THEN <<Head(s)>> \o SelectSeqBy(Tail(s), field, v)
         ELSE SelectSeqBy(Tail(s), field, v)

-----------------------------------------------------------------------------
(* Bearer tokens *)

NoToken == [kind |-> "none", uid |-> 0, role |-> Undefined]
\* a token whose signature or expiry check fails in jwt.verify
BadToken == [kind |-> "bad", uid |-> 0, role |-> Undefined]

\* jwt.sign({uid, role}) in the token-role design, jwt.sign({uid}) in the
\* store-role design
signToken(uid, role) ==
    [kind |-> "jwt", uid |-> uid,
     role |-> IF variant = "token" THEN role ELSE Undefined]

Bearers == {NoToken, BadToken} \cup issued

NoSession == [uid |-> 0, role |-> Undefined]

Reject(status, error) ==
    [ok |-> FALSE, status |-> status, error |-> error, user |-> NoSession]
Pass(uid, role) ==
    [ok |-> TRUE, status |-> 200, error |-> "",
     user |-> [uid |-> uid, role |-> role]]

\* mutation of auth: the role is read from the user document, not the token
authByStore(tok) ==
    IF tok.kind = "none" THEN Reject(401, "Token ausente.")
    ELSE IF tok.kind # "jwt" THEN Reject(401, "Token invalido.")
    ELSE Pass(tok.uid, users[tok.uid].role)

\* token-role design: req.user is the token's payload
auth(tok) ==
    IF tok.kind = "none" THEN Reject(401, "Token ausente.")
    ELSE IF tok.kind # "jwt" THEN Reject(401, "Token invalido.")
    ELSE Pass(tok.uid, tok.role)

\* store-role design: the user document read by the uid of the token
\* (uid 0 stands for the null it returns)
getUserFromToken(tok) ==
    IF tok.kind # "jwt" THEN NoSession
    ELSE IF tok.uid = 0 THEN NoSession
    ELSE IF tok.uid \notin 1..Len(users) THEN NoSession
    ELSE [uid |-> tok.uid, role |-> users[tok.uid].role]

\* mutation of authRequired: the payload of the token is trusted and the
\* user document is not read
authRequiredStale(tok) == auth(tok)

authRequired(tok) ==
    LET user == getUserFromToken(tok) IN
    IF user.uid = 0 THEN Reject(401, "Nao autenticado.")
    ELSE Pass(user.uid, user.role)

onlyProfessor(user) ==
    IF user.role # "professor" THEN Reject(403, "Apenas professores.")
    ELSE Pass(user.uid, user.role)

requireProfessor(user) ==
    IF user.role # "professor"
    THEN Reject(403, "Apenas professores podem executar esta acao.")
    ELSE Pass(user.uid, user.role)

\* mutation of Session: the token is decoded and never verified
sessionUnverified(tok) == Pass(tok.uid, tok.role)

\* the middleware chain of a route marked "session"
Session(tok) == IF variant = "token" THEN auth(tok) ELSE authRequired(tok)

\* mutation of Teacher: the role middleware is left out of the chain
teacherUngated(tok) == Session(tok)

\* the middleware chain of a route marked "session+teacher"
Teacher(tok) ==
    LET a == Session(tok) IN
    IF ~a.ok THEN a
    ELSE IF variant = "token" THEN onlyProfessor(a.user)
         ELSE requireProfessor(a.user)

-----------------------------------------------------------------------------
(* Responses *)

NoBody == <<>>
NoResp == [route |-> "-", tok |-> NoToken, status |-> 0, error |-> "",
           body |-> NoBody]

Respond(route, tok, status, error, body) ==
    resp' = [route |-> route, tok |-> tok, status |-> status,
             error |-> error, body |-> body]

\* mutation of Refuse: the request is refused after its write was made (here
\* the stored submissions are gone by the time the error is sent)
RefuseAfterWrite(route, tok, gate) ==
    /\ Respond(route, tok, gate.status, gate.error, NoBody)
    /\ subs' = <<>>
    /\ UNCHANGED <<variant, users, issued, assessments, keys, forms,
                   nextId, now, inflight>>

Refuse(route, tok, gate) ==
    /\ Respond(route, tok, gate.status, gate.error, NoBody)
    /\ UNCHANGED <<variant, users, issued, assessments, keys, subs, forms,
                   nextId, now, inflight>>

Refuse400(route, tok, error) == Refuse(route, tok, Reject(400, error))
Refuse404(route, tok, error) == Refuse(route, tok, Reject(404, error))
Refuse500(route, tok, error) == Refuse(route, tok, Reject(500, error))

-----------------------------------------------------------------------------
(* Queries on the collections *)

\* Assessment.findById(id) / Assessment.exists({_id: id}): the matching
\* documents (none or one)
findAssessment(id) == {a \in Range(assessments) : a.id = id}

\* Model.findOne(filter).sort({createdAt: -1}) over the documents `docs`:
\* the documents it may return, those with the greatest createdAt
sortedFirst(docs) ==
    {d \in docs : \A e \in docs : e.createdAt <= d.createdAt}

\* Model.findOne(filter) with no sort: any matching document may be returned
unsortedFirst(docs) == docs

keysOf(aid) == {k \in Range(keys) : k.assessmentId = aid}

\* mutation of findLatestKey: the sort is dropped
findKeyNoSort(aid) == unsortedFirst(keysOf(aid))

\* mutation of findLatestKey: an empty key stands in when none is stored
findKeyOrEmpty(aid) ==
    IF keysOf(aid) = {}
    THEN {[assessmentId |-> aid, answers |-> <<>>, createdAt |-> 0]}
    ELSE sortedFirst(keysOf(aid))

\* AnswerKey.findOne({assessmentId}).sort({createdAt: -1}).lean()
findLatestKey(aid) == sortedFirst(keysOf(aid))

\* mutation of findAnyKey: an empty key stands in when none is stored
findAnyKeyOrEmpty(aid) ==
    IF keysOf(aid) = {}
    THEN {[assessmentId |-> aid, answers |-> <<>>, createdAt |-> 0]}
    ELSE unsortedFirst(keysOf(aid))

\* AnswerKey.findOne({assessmentId}).lean()
findAnyKey(aid) == unsortedFirst(keysOf(aid))

\* Assessment.findOne().sort({createdAt: -1}).lean()
findLatestAssessment == sortedFirst(Range(assessments))

-----------------------------------------------------------------------------
(* Grading *)

RECURSIVE keyMapGet(_, _)
\* new Map(keyDoc.answers.map(k => [k.questionNumber, k.correctAnswer]))
\* .get(n): the correctAnswer of the last entry for n, undefined if none
keyMapGet(answers, n) ==
    IF answers = <<>> THEN Undefined
    ELSE LET last == answers[Len(answers)] IN
         IF last.questionNumber = n THEN last.correctAnswer
         ELSE keyMapGet(SubSeq(answers, 1, Len(answers) - 1), n)

\* mutation of gradeItem: the item is stored as the client sent it
trustItem(a, keyAnswers) == a

\* { ...a, isCorrect: keyMap.get(a.questionNumber) === a.answer }
gradeItem(a, keyAnswers) ==
    [a EXCEPT !.isCorrect = (keyMapGet(keyAnswers, a.questionNumber) = a.answer)]

recomputeIsCorrect(answers, keyAnswers) ==
    [i \in 1..Len(answers) |-> gradeItem(answers[i], keyAnswers)]

\* the enum validator of StudentAnswerItemSchema.answer, run by
\* StudentAnswer.create: an absent value passes, any other must be in A..E
validItems(answers) ==
    \A i \in 1..Len(answers) :
        answers[i].answer = Undefined \/ answers[i].answer \in Enum

-----------------------------------------------------------------------------
(* Request payloads exercised *)

NoId == 0                      \* an absent assessmentId
AssessIds == 1..MaxAssess      \* ObjectIds a client may send
QNums == {1, 2}

AssessInputs ==
    { [name |-> "P1", questionsCount |-> 1, questions |-> <<Q(1)>>],
      [name |-> "P1", questionsCount |-> 2, questions |-> <<Q(1), Q(2)>>],
      [name |-> "P1", questionsCount |-> 2, questions |-> <<Q(1)>>] }

KeyInputs == { <<K(1, "A")>>, <<K(1, "B")>> }

\* the same answer sent twice, claimed right and claimed wrong
SubmitInputs == { <<Item(1, "A", TRUE)>>, <<Item(1, "A", FALSE)>> }

\* answers to question 2, which the keys exercised do not hold: a letter,
\* the empty string and no answer field at all; and one to question 1
SparseInputs ==
    { <<Item(2, "A", FALSE)>>, <<Item(2, "", FALSE)>>,
      <<Item(2, Undefined, FALSE)>>, <<Item(1, "A", FALSE)>> }

\* a name is a sequence of characters; <<>> is the empty string
NameInputs == { <<>>, <<"a">> }

Absent == [present |-> FALSE, value |-> <<>>]
Field(v) == [present |-> TRUE, value |-> v]

\* the field set of a posted form: studentName, and q<number> per question
FieldVals == Letters \cup {Undefined}
FormNameInputs == { Field(<<" ", "a">>) }
FormInputs == [studentName : FormNameInputs, q : [{1} -> FieldVals]]

FormIds == {"f1"}        \* crypto.randomBytes(6).toString("base64url")
RequireNameInputs == {"true", "false", Undefined}

-----------------------------------------------------------------------------
(* Catalog *)

\* mutation of countMismatch: the count is not compared
countUnchecked(body) == FALSE

\* questions.length !== questionsCount
countMismatch(body) == Len(body.questions) # body.questionsCount

\* POST /assessments
PostAssessments(tok, body) ==
    LET route == "POST /assessments"
        gate == Teacher(tok)
    IN  IF ~gate.ok THEN Refuse(route, tok, gate)
        ELSE IF body.name = "" \/ body.questionsCount = 0
        THEN Refuse400(route, tok, "Dados da avaliacao invalidos.")
        ELSE IF countMismatch(body)
        THEN Refuse400(route, tok, "Quantidade de questoes inconsistente.")
        ELSE /\ nextId <= MaxAssess
             /\ LET doc == [id |-> nextId, name |-> body.name,
                             questionsCount |-> body.questionsCount,
                             questions |-> body.questions,
                             createdAt |-> now + 1]
                IN  /\ assessments' = Append(assessments, doc)
                    /\ Respond(route, tok, 201, "", doc)
             /\ now' = now + 1
             /\ nextId' = nextId + 1
             /\ UNCHANGED <<variant, users, issued, keys, subs, forms,
                            inflight>>

\* the AnswerKey documents that handlers in flight are about to create
pendingKeys ==
    Len(SelectSeqBy(inflight, "route", "POST /assessments/from-bank"))
    + Len(SelectSeqBy(inflight, "route", "POST /answer-keys"))
\* the StudentAnswer documents that handlers in flight are about to create
pendingSubs ==
    Len(SelectSeqBy(inflight, "route", "POST /student-answers"))
    + Len(SelectSeqBy(inflight, "route", "POST /form/:formId/submit"))

\* mutation of AnswerKeyCreate: the new key supersedes the assessment's keys
AnswerKeyUpsert(key) ==
    SelectSeq(keys, LAMBDA k : k.assessmentId # key.assessmentId) \o <<key>>

\* AnswerKey.create(key): the collection after it
AnswerKeyCreate(key) == Append(keys, key)

\* POST /answer-keys
PostAnswerKeys(tok, body) ==
    LET route == "POST /answer-keys"
        gate == Teacher(tok)
    IN  IF ~gate.ok THEN Refuse(route, tok, gate)
        ELSE IF body.assessmentId = NoId \/ body.answers = <<>>
        THEN Refuse400(route, tok, "Gabarito invalido.")
        ELSE IF findAssessment(body.assessmentId) = {}
        THEN Refuse404(route, tok, "Avaliacao nao encontrada.")
        ELSE /\ Len(keys) + pendingKeys < MaxKeys
             /\ LET key == [assessmentId |-> body.assessmentId,
                             answers |-> body.answers,
                             createdAt |-> now + 1]
                IN  /\ keys' = AnswerKeyCreate(key)
                    /\ Respond(route, tok, 201, "", key.answers)
             /\ now' = now + 1
             /\ UNCHANGED <<variant, users, issued, assessments, subs, forms,
                            nextId, inflight>>

\* POST /forms
PostForms(tok, body) ==
    LET route == "POST /forms"
        gate == Teacher(tok)
    IN  IF ~gate.ok THEN Refuse(route, tok, gate)
        ELSE IF body.assessmentId = NoId
        THEN Refuse400(route, tok, "assessmentId e obrigatorio.")
        ELSE IF findAssessment(body.assessmentId) = {}
        THEN Refuse404(route, tok, "Avaliacao nao encontrada.")
        ELSE \E formId \in FormIds :
               IF \E f \in Range(forms) : f.formId = formId
               THEN \* the unique index on formId rejects the insert
                    Refuse500(route, tok, "Nao foi possivel criar o formulario.")
               ELSE LET form == [formId |-> formId,
                                 assessmentId |-> body.assessmentId,
                                 requireName |->
                                    IF body.requireName \in {"true", "false"}
                                    THEN body.requireName = "true" ELSE TRUE]
                    IN  /\ forms' = Append(forms, form)
                        /\ Respond(route, tok, 201, "", formId)
                        /\ UNCHANGED <<variant, users, issued, assessments,
                                       keys, subs, nextId, now, inflight>>

\* mutation of deleteMany: nothing is deleted
deleteNone(docs) == docs

\* Model.deleteMany({}): the collection after it
deleteMany(docs) == <<>>

\* DELETE /clear-data
DeleteClearData(tok) ==
    LET route == "DELETE /clear-data"
        gate == Teacher(tok)
    IN  IF ~gate.ok THEN Refuse(route, tok, gate)
        ELSE /\ assessments' = deleteMany(assessments)
             /\ keys' = deleteMany(keys)
             /\ subs' = deleteMany(subs)
             /\ forms' = deleteMany(forms)
             /\ Respond(route, tok, 200, "", NoBody)
             /\ UNCHANGED <<variant, users, issued, nextId, now, inflight>>

RECURSIVE Reverse(_)
Reverse(s) == IF s = <<>> THEN <<>> ELSE Reverse(Tail(s)) \o <<Head(s)>>

\* answerKey?.answers || null, as a set: {} is null
latestKeyAnswers(aid) ==
    IF findLatestKey(aid) = {} THEN {{}}
    ELSE {{d.answers} : d \in findLatestKey(aid)}

\* the bundles getLatestAssessmentBundle may return ({} is null)
getLatestAssessmentBundle ==
    IF assessments = <<>>
    THEN { [assessment |-> {}, answerKey |-> {}, studentAnswers |-> <<>>] }
    ELSE UNION { { [assessment |-> {a},
                    answerKey |-> k,
                    studentAnswers |->
                        Reverse(SelectSeqBy(subs, "assessmentId", a.id))] :
                   k \in latestKeyAnswers(a.id) } :
                 a \in findLatestAssessment }

\* GET /all-data
GetAllData(tok) ==
    LET route == "GET /all-data"
        gate == Session(tok)
    IN  IF ~gate.ok THEN Refuse(route, tok, gate)
        ELSE \E bundle \in getLatestAssessmentBundle :
               /\ Respond(route, tok, 200, "", bundle)
               /\ UNCHANGED <<variant, users, issued, assessments, keys, subs,
                              forms, nextId, now, inflight>>

-----------------------------------------------------------------------------
(* Submissions *)

\* the keys the data model calls authoritative for an assessment: those with
\* the greatest createdAt (recorded at a lookup, read only by the properties)
Authoritative(aid) ==
    {k.answers : k \in {d \in keysOf(aid) :
                          \A e \in keysOf(aid) : e.createdAt <= d.createdAt}}

RemoveAt(s, i) == SubSeq(s, 1, i - 1) \o SubSeq(s, i + 1, Len(s))

\* mutation of StudentAnswerCreate: a student's new submission to an
\* assessment takes the place of their earlier one
StudentAnswerUpsert(saved) ==
    SelectSeq(subs, LAMBDA d : ~(/\ d.assessmentId = saved.assessmentId
                                 /\ d.studentName = saved.studentName))
    \o <<saved>>

\* mutation of StudentAnswerCreate: the stored submissions of the assessment
\* are marked again, by the key the new one was marked by
StudentAnswerRegrade(saved) ==
    [i \in 1..Len(subs) |->
        IF subs[i].assessmentId = saved.assessmentId
        THEN [subs[i] EXCEPT !.answers = recomputeIsCorrect(@, saved.keyUsed)]
        ELSE subs[i]]
    \o <<saved>>

\* StudentAnswer.create(saved): the collection after it
StudentAnswerCreate(saved) == Append(subs, saved)

\* the validators of StudentAnswerSchema: studentName is required (an empty
\* string fails it) and every answer that is present is one of A..E
validSubmission(r) == r.studentName # <<>> /\ validItems(r.answers)

\* POST /student-answers, up to and including the grading
PostStudentAnswers(tok, body) ==
    LET route == "POST /student-answers"
        gate == Session(tok)
    IN  IF ~gate.ok THEN Refuse(route, tok, gate)
        ELSE IF body.assessmentId = NoId \/ body.studentName = <<>>
        THEN Refuse400(route, tok, "Dados de respostas invalidos.")
        ELSE IF findLatestKey(body.assessmentId) = {}
        THEN Refuse400(route, tok, "Gabarito nao definido para esta avaliacao.")
        ELSE /\ Len(subs) + pendingSubs < MaxSubs
             /\ \E keyDoc \in findLatestKey(body.assessmentId) :
                  inflight' = Append(inflight,
                    [route |-> route, tok |-> tok,
                     assessmentId |-> body.assessmentId,
                     studentName |-> body.studentName,
                     sent |-> body.answers,
                     answers |-> recomputeIsCorrect(body.answers, keyDoc.answers),
                     keyUsed |-> keyDoc.answers,
                     latest |-> Authoritative(body.assessmentId)])
             /\ resp' = NoResp
             /\ UNCHANGED <<variant, users, issued, assessments, keys, subs,
                            forms, nextId, now>>

\* StudentAnswer.create(...) of POST /student-answers and of
\* POST /form/:formId/submit, and the response
InsertSubmission(i) ==
    LET r == inflight[i] IN
    /\ r.route \in {"POST /student-answers", "POST /form/:formId/submit"}
    /\ inflight' = RemoveAt(inflight, i)
    /\ IF ~validSubmission(r)
       THEN /\ Respond(r.route, r.tok, 500,
                       IF r.route = "POST /student-answers"
                       THEN "Nao foi possivel salvar as respostas do aluno."
                       ELSE "Erro ao enviar respostas.", NoBody)
            /\ UNCHANGED subs
       ELSE LET saved == [assessmentId |-> r.assessmentId,
                          studentName |-> r.studentName,
                          answers |-> r.answers,
                          route |-> r.route, sent |-> r.sent,
                          keyUsed |-> r.keyUsed, latest |-> r.latest]
            IN  /\ subs' = StudentAnswerCreate(saved)
                /\ Respond(r.route, r.tok,
                           IF r.route = "POST /student-answers" THEN 201 ELSE 200,
                           "", saved)
    /\ UNCHANGED <<variant, users, issued, assessments, keys, forms, nextId,
                   now>>

-----------------------------------------------------------------------------
(* Public form *)

Space == " "
\* the placeholder name of the public form, one symbol of the model
Anonimo == <<"Anonimo">>

RECURSIVE trimStart(_)
trimStart(s) ==
    IF s # <<>> /\ Head(s) = Space THEN trimStart(Tail(s)) ELSE s

\* String.prototype.trim over the characters of s
trim(s) == Reverse(trimStart(Reverse(trimStart(s))))

RECURSIVE collapse(_)
\* s.replace(/\s+/g, " "): every run of spaces becomes one space
collapse(s) ==
    IF Len(s) < 2 THEN s
    ELSE IF s[1] = Space /\ s[2] = Space THEN collapse(Tail(s))
    ELSE <<Head(s)>> \o collapse(Tail(s))

\* (req.body.studentName || "Anonimo").toString().trim().replace(/\s+/g, " ")
cleanName(field) ==
    collapse(trim(IF ~field.present \/ field.value = <<>>
                  THEN Anonimo ELSE field.value))

\* assessment.questions.map(q => ...) of POST /form/:formId/submit
formAnswers(assessment, fields, keyAnswers) ==
    [i \in 1..Len(assessment.questions) |->
        LET q == assessment.questions[i]
            \* (req.body[`q${q.number}`] || "").toString()
            val == IF q.number \notin DOMAIN fields.q
                      \/ fields.q[q.number] = Undefined
                   THEN "" ELSE fields.q[q.number]
            answer == IF val \in Enum THEN val ELSE ""
        IN  [questionNumber |-> q.number, answer |-> answer,
             isCorrect |-> (keyMapGet(keyAnswers, q.number) = answer),
             subject |-> q.subject]]

findForm(formId) == {f \in Range(forms) : f.formId = formId}

\* GET /form/:formId
GetForm(formId) ==
    LET route == "GET /form/:formId" IN
    IF findForm(formId) = {}
    THEN Refuse404(route, NoToken, "Formulario nao encontrado.")
    ELSE \E form \in findForm(formId) :
           IF findAssessment(form.assessmentId) = {}
              \/ findAnyKey(form.assessmentId) = {}
           THEN Refuse400(route, NoToken, "Formulario incompleto.")
           ELSE \E assessment \in findAssessment(form.assessmentId) :
                  /\ Respond(route, NoToken, 200, "",
                             [questions |-> assessment.questions,
                              requireName |-> form.requireName])
                  /\ UNCHANGED <<variant, users, issued, assessments, keys,
                                 subs, forms, nextId, now, inflight>>

\* POST /form/:formId/submit, up to and including the grading
PostFormSubmit(formId, fields) ==
    LET route == "POST /form/:formId/submit" IN
    IF findForm(formId) = {}
    THEN Refuse404(route, NoToken, "Formulario nao encontrado.")
    ELSE \E form \in findForm(formId) :
           IF findAssessment(form.assessmentId) = {}
              \/ findAnyKey(form.assessmentId) = {}
           THEN Refuse400(route, NoToken, "Formulario incompleto.")
           ELSE \E assessment \in findAssessment(form.assessmentId),
                   keyDoc \in findAnyKey(form.assessmentId) :
                  LET answers == formAnswers(assessment, fields, keyDoc.answers)
                  IN  IF \E i \in 1..Len(answers) : answers[i].answer = ""
                      THEN Refuse400(route, NoToken, "Preencha todas as questoes.")
                      ELSE /\ Len(subs) + pendingSubs < MaxSubs
                           /\ inflight' = Append(inflight,
                                [route |-> route, tok |-> NoToken,
                                 assessmentId |-> form.assessmentId,
                                 studentName |-> cleanName(fields.studentName),
                                 sent |-> answers,
                                 answers |-> answers,
                                 keyUsed |-> keyDoc.answers,
                                 latest |-> Authoritative(form.assessmentId)])
                           /\ resp' = NoResp
                           /\ UNCHANGED <<variant, users, issued, assessments,
                                          keys, subs, forms, nextId, now>>

-----------------------------------------------------------------------------
(* Assessment from the question bank (token-role design only) *)

\* the Question collection the builder reads: {_id, correctAnswer, subject}
Bank ==
    { [id |-> "q1", correctAnswer |-> "A", subject |-> Subject],
      [id |-> "q2", correctAnswer |-> "B", subject |-> Subject] }

BankInputs == { <<"q1">>, <<"q2", "q1">>, <<"q1", "q1">>, <<"q9">>, <<>> }

\* Question.find({_id: {$in: questionIds}}).lean()
findQuestions(questionIds) == {q \in Bank : q.id \in Range(questionIds)}

\* byId.get(id), for an id that was found
byId(id) == CHOOSE q \in Bank : q.id = id

\* POST /assessments/from-bank, up to and including Assessment.create
PostAssessmentsFromBank(tok, body) ==
    LET route == "POST /assessments/from-bank"
        gate == Teacher(tok)
    IN  IF ~gate.ok THEN Refuse(route, tok, gate)
        ELSE IF body.name = "" \/ body.questionIds = <<>>
        THEN Refuse400(route, tok, "Dados invalidos para builder.")
        ELSE IF Cardinality(findQuestions(body.questionIds))
                  # Len(body.questionIds)
        THEN Refuse400(route, tok, "Algumas questoes nao foram encontradas.")
        ELSE /\ nextId <= MaxAssess
             /\ Len(keys) + pendingKeys < MaxKeys
             /\ LET ids == body.questionIds
                     doc == [id |-> nextId, name |-> body.name,
                             questionsCount |-> Len(ids),
                             questions |-> [i \in 1..Len(ids) |->
                                 [number |-> i, subject |-> byId(ids[i]).subject]],
                             createdAt |-> now + 1]
                IN  /\ assessments' = Append(assessments, doc)
                    /\ inflight' = Append(inflight,
                          [route |-> route, tok |-> tok, assessment |-> doc,
                           answers |-> [i \in 1..Len(ids) |->
                               K(i, byId(ids[i]).correctAnswer)]])
             /\ now' = now + 1
             /\ nextId' = nextId + 1
             /\ resp' = NoResp
             /\ UNCHANGED <<variant, users, issued, keys, subs, forms>>

\* AnswerKey.create(...) of POST /assessments/from-bank, and the response
InsertBankKey(i) ==
    LET r == inflight[i] IN
    /\ r.route = "POST /assessments/from-bank"
    /\ inflight' = RemoveAt(inflight, i)
    /\ LET key == [assessmentId |-> r.assessment.id, answers |-> r.answers,
                    createdAt |-> now + 1]
       IN  /\ keys' = Append(keys, key)
           /\ Respond(r.route, r.tok, 201, "",
                      [assessment |-> r.assessment, answerKey |-> key.answers])
    /\ now' = now + 1
    /\ UNCHANGED <<variant, users, issued, assessments, subs, forms, nextId>>

\* AnswerKey.create(...) of POST /assessments/from-bank rejects (a storage
\* failure): the catch answers 500, the assessment stays
FailBankKey(i) ==
    LET r == inflight[i] IN
    /\ r.route = "POST /assessments/from-bank"
    /\ inflight' = RemoveAt(inflight, i)
    /\ Respond(r.route, r.tok, 500, "Erro ao criar avaliacao do banco.", NoBody)
    /\ UNCHANGED <<variant, users, issued, assessments, keys, subs, forms,
                   nextId, now>>

-----------------------------------------------------------------------------
(* Accounts *)

\* an email is a sequence of characters
EmailInputs == { <<>>, <<"a">>, <<"A", " ">> }
PasswordInputs == { "", "p", "x" }
RoleInputs == { "aluno", "professor", Undefined }

\* String.prototype.toLowerCase over the characters of s
toLowerCase(s) == [i \in 1..Len(s) |-> IF s[i] = "A" THEN "a" ELSE s[i]]

\* bcrypt.hash(password, 10) and bcrypt.compare(password, hash)
hash(password) == <<"bcrypt", password>>
compare(password, passwordHash) == passwordHash = hash(password)

\* User.findOne({email}): the _ids of the matching documents
findUser(email) == {u \in 1..Len(users) : users[u].email = email}

userBody(token, u, email, role) ==
    [token |-> token, id |-> u, email |-> email, role |-> role]

\* POST /auth/signup
PostAuthSignup(body) ==
    LET route == "POST /auth/signup"
        stored == IF variant = "token" THEN trim(toLowerCase(body.email))
                  ELSE body.email
        role == IF variant = "token"
                THEN (IF body.role = "professor" THEN "professor" ELSE "aluno")
                ELSE (IF body.role \in {"aluno", "professor"}
                      THEN body.role ELSE Null)
        u == Len(users) + 1
    IN  IF body.email = <<>> \/ body.password = ""
           \/ (variant = "token" /\ body.name = "")
        THEN Refuse400(route, NoToken,
                       IF variant = "token" THEN "Dados obrigatorios ausentes."
                       ELSE "E-mail e senha sao obrigatorios.")
        ELSE IF findUser(body.email) # {}
        THEN Refuse(route, NoToken, Reject(409, "E-mail ja cadastrado."))
        ELSE IF findUser(stored) # {}
        THEN \* the unique index on email rejects the insert
             Refuse500(route, NoToken, "Erro no cadastro.")
        ELSE /\ users' = Append(users,
                    [email |-> stored, passwordHash |-> hash(body.password),
                     role |-> role])
             /\ issued' = issued \cup {signToken(u, role)}
             /\ Respond(route, NoToken, 201, "",
                        userBody(signToken(u, role), u, stored, role))
             /\ UNCHANGED <<variant, assessments, keys, subs, forms, nextId,
                            now, inflight>>

\* mutation of invalidCredentials: an unknown email is told apart
invalidCredentialsTelling(found) ==
    IF found THEN Reject(401, "Credenciais invalidas.")
    ELSE Reject(404, "Usuario nao encontrado.")

\* the two refusals of login: `if (!user) return res.status(401)...` (found
\* is false) and `if (!ok) return res.status(401)...` (found is true)
invalidCredentials(found) == Reject(401, "Credenciais invalidas.")

\* POST /auth/login
PostAuthLogin(body) ==
    LET route == "POST /auth/login"
        email == IF variant = "token" THEN trim(toLowerCase(body.email))
                 ELSE body.email
    IN  IF variant = "store" /\ (body.email = <<>> \/ body.password = "")
        THEN Refuse400(route, NoToken, "E-mail e senha sao obrigatorios.")
        ELSE IF findUser(email) = {}
        THEN Refuse(route, NoToken, invalidCredentials(FALSE))
        ELSE \E u \in findUser(email) :
               IF ~compare(body.password, users[u].passwordHash)
               THEN Refuse(route, NoToken, invalidCredentials(TRUE))
               ELSE /\ issued' = issued \cup {signToken(u, users[u].role)}
                    /\ Respond(route, NoToken, 200, "",
                               userBody(signToken(u, users[u].role), u,
                                        users[u].email, users[u].role))
                    /\ UNCHANGED <<variant, users, assessments, keys, subs,
                                   forms, nextId, now, inflight>>

\* mutation of findByIdAndUpdate: a role already chosen is kept
updateRoleIfUnset(uid, role) ==
    IF users[uid].role \in {"aluno", "professor"} THEN users
    ELSE [users EXCEPT ![uid].role = role]

\* User.findByIdAndUpdate(uid, {role}, {new: true}): the collection after it
findByIdAndUpdate(uid, role) == [users EXCEPT ![uid].role = role]

\* POST /me/role
PostMeRole(tok, body) ==
    LET route == "POST /me/role"
        gate == Session(tok)
    IN  IF ~gate.ok THEN Refuse(route, tok, gate)
        ELSE IF body.role \notin {"aluno", "professor"}
        THEN Refuse400(route, tok, "Role invalida.")
        ELSE IF gate.user.uid \notin 1..Len(users)
        THEN Refuse404(route, tok, "Usuario nao encontrado.")
        ELSE \* `asked` is the role of the request, kept beside the response
             \* and read only by the properties
             /\ users' = findByIdAndUpdate(gate.user.uid, body.role)
             /\ Respond(route, tok, 200, "",
                        [id |-> gate.user.uid,
                         email |-> users'[gate.user.uid].email,
                         role |-> users'[gate.user.uid].role,
                         asked |-> body.role])
             /\ UNCHANGED <<variant, issued, assessments, keys, subs, forms,
                            nextId, now, inflight>>

-----------------------------------------------------------------------------
(* Specifications *)

SignupInputs ==
    [name : {"n"}, email : EmailInputs, password : {"", "p"},
     role : RoleInputs]
LoginInputs == [email : EmailInputs, password : PasswordInputs]

Empty ==
    /\ assessments = <<>>
    /\ keys = <<>>
    /\ subs = <<>>
    /\ forms = <<>>
    /\ nextId = 1
    /\ now = 0
    /\ inflight = <<>>
    /\ resp = NoResp

\* the accounts of the grading specification: a teacher and a student, as
\* two signups leave them
Teachers == <<[email |-> <<"t">>, passwordHash |-> hash("p"), role |-> "professor"],
              [email |-> <<"s">>, passwordHash |-> hash("p"), role |-> "aluno"]>>

\* Grading: the catalog and POST /student-answers, used by a teacher and a
\* student who hold the tokens of their signups
Init ==
    /\ variant \in {"token", "store"}
    /\ users = Teachers
    /\ issued = {signToken(1, "professor"), signToken(2, "aluno")}
    /\ Empty

Next ==
    \/ \E tok \in issued :
          /\ Teacher(tok).ok
          /\ PostAssessments(tok, [name |-> "P1", questionsCount |-> 1,
                                   questions |-> <<Q(1)>>])
    \/ \E tok \in issued, aid \in AssessIds, answers \in KeyInputs :
          /\ Teacher(tok).ok
          /\ PostAnswerKeys(tok, [assessmentId |-> aid, answers |-> answers])
    \/ \E tok \in issued, aid \in AssessIds, answers \in SubmitInputs :
          /\ ~Teacher(tok).ok
          /\ PostStudentAnswers(tok, [assessmentId |-> aid,
                                      studentName |-> <<"a">>,
                                      answers |-> answers])
    \/ \E i \in 1..Len(inflight) : InsertSubmission(i)

Spec == Init /\ [][Next]_vars

\* Sparse keys: submissions that answer questions the key does not hold
NextTotal ==
    \/ \E tok \in issued :
          /\ Teacher(tok).ok
          /\ PostAssessments(tok, [name |-> "P1", questionsCount |-> 1,
                                   questions |-> <<Q(1)>>])
    \/ \E tok \in issued, aid \in AssessIds :
          /\ Teacher(tok).ok
          /\ PostAnswerKeys(tok, [assessmentId |-> aid, answers |-> <<K(1, "A")>>])
    \/ \E tok \in issued, aid \in AssessIds, answers \in SparseInputs :
          /\ ~Teacher(tok).ok
          /\ PostStudentAnswers(tok, [assessmentId |-> aid,
                                      studentName |-> <<"a">>,
                                      answers |-> answers])
    \/ \E i \in 1..Len(inflight) : InsertSubmission(i)
    \/ \E tok \in issued : Teacher(tok).ok /\ DeleteClearData(tok)

SpecTotal == Init /\ [][NextTotal]_vars

\* Public form: the catalog, a distribution link and its anonymous
\* submissions
NextForm ==
    \/ \E tok \in issued :
          /\ Teacher(tok).ok
          /\ PostAssessments(tok, [name |-> "P1", questionsCount |-> 1,
                                   questions |-> <<Q(1)>>])
    \/ \E tok \in issued, aid \in AssessIds, answers \in KeyInputs :
          /\ Teacher(tok).ok
          /\ PostAnswerKeys(tok, [assessmentId |-> aid, answers |-> answers])
    \/ \E tok \in issued, aid \in AssessIds :
          /\ Teacher(tok).ok
          /\ PostForms(tok, [assessmentId |-> aid, requireName |-> Undefined])
    \/ \E formId \in FormIds : GetForm(formId)
    \/ \E formId \in FormIds, fields \in FormInputs :
          PostFormSubmit(formId, fields)
    \/ \E i \in 1..Len(inflight) : InsertSubmission(i)
    \/ \E tok \in issued : Teacher(tok).ok /\ DeleteClearData(tok)

SpecForm == Init /\ [][NextForm]_vars

\* View: what GET /all-data returns to the teacher and to the student
NextView ==
    \/ \E tok \in issued :
          /\ Teacher(tok).ok
          /\ PostAssessments(tok, [name |-> "P1", questionsCount |-> 1,
                                   questions |-> <<Q(1)>>])
    \/ \E tok \in issued, aid \in AssessIds :
          /\ Teacher(tok).ok
          /\ PostAnswerKeys(tok, [assessmentId |-> aid, answers |-> <<K(1, "A")>>])
    \/ \E tok \in issued, aid \in AssessIds :
          /\ ~Teacher(tok).ok
          /\ PostStudentAnswers(tok, [assessmentId |-> aid,
                                      studentName |-> <<"a">>,
                                      answers |-> <<Item(1, "A", TRUE)>>])
    \/ \E i \in 1..Len(inflight) : InsertSubmission(i)
    \/ \E tok \in issued : GetAllData(tok)
    \/ \E tok \in issued : Teacher(tok).ok /\ DeleteClearData(tok)

SpecView == Init /\ [][NextView]_vars

\* Gates: every route that needs a session, called with no token, with a
\* token that fails verification and with the tokens of a teacher, of a
\* student and (store-role design) of an account whose role is unset
InitGate ==
    /\ variant \in {"token", "store"}
    /\ users = IF variant = "token" THEN Teachers
               ELSE Append(Teachers, [email |-> <<"u">>,
                                      passwordHash |-> hash("p"),
                                      role |-> Null])
    /\ issued = {signToken(u, users[u].role) : u \in 1..Len(users)}
    /\ Empty

NextGate ==
    \/ \E tok \in {NoToken, BadToken} :
          PostMeRole(tok, [role |-> "professor"])
    \/ \E tok \in {NoToken, BadToken} : GetAllData(tok)
    \/ \E tok \in {NoToken, BadToken}, aid \in AssessIds :
          PostStudentAnswers(tok, [assessmentId |-> aid, studentName |-> <<"a">>,
                                   answers |-> <<Item(1, "A", TRUE)>>])
    \/ \E tok \in Bearers :
          PostAssessments(tok, [name |-> "P1", questionsCount |-> 1,
                                questions |-> <<Q(1)>>])
    \/ \E tok \in Bearers :
          /\ variant = "token"
          /\ PostAssessmentsFromBank(tok, [name |-> "P2",
                                           questionIds |-> <<"q1">>])
    \/ \E i \in 1..Len(inflight) : InsertBankKey(i)
    \/ \E tok \in Bearers, aid \in AssessIds :
          PostAnswerKeys(tok, [assessmentId |-> aid, answers |-> <<K(1, "A")>>])
    \/ \E tok \in Bearers, aid \in AssessIds :
          PostForms(tok, [assessmentId |-> aid, requireName |-> Undefined])
    \/ \E tok \in Bearers : DeleteClearData(tok)

SpecGate == InitGate /\ [][NextGate]_vars

\* Accounts: signup, login and the choice of a role, and what the tokens
\* they issue open on the teacher routes
InitAccount ==
    /\ variant \in {"token", "store"}
    /\ users = <<>>
    /\ issued = {}
    /\ Empty

NextAccount ==
    \/ \E body \in SignupInputs : PostAuthSignup(body)
    \/ \E body \in LoginInputs : PostAuthLogin(body)
    \/ \E tok \in Bearers, role \in RoleInputs :
          PostMeRole(tok, [role |-> role])
    \/ \E tok \in Bearers :
          PostAssessments(tok, [name |-> "P1", questionsCount |-> 1,
                                questions |-> <<Q(1)>>])
    \/ \E tok \in Bearers :
          /\ variant = "token"
          /\ PostAssessmentsFromBank(tok, [name |-> "P2",
                                           questionIds |-> <<"q1">>])
    \/ \E i \in 1..Len(inflight) : InsertBankKey(i)
    \/ \E tok \in Bearers, aid \in AssessIds :
          PostAnswerKeys(tok, [assessmentId |-> aid, answers |-> <<K(1, "A")>>])
    \/ \E tok \in Bearers, aid \in AssessIds :
          PostForms(tok, [assessmentId |-> aid, requireName |-> Undefined])
    \/ \E tok \in Bearers : DeleteClearData(tok)

SpecAccount == InitAccount /\ [][NextAccount]_vars

-----------------------------------------------------------------------------
(* Properties: grading *)

AnswersRoute == "POST /student-answers"
FormRoute == "POST /form/:formId/submit"

\* the stored submissions that came in through a route
storedBy(route) == {i \in 1..Len(subs) : subs[i].route = route}

\* the key `ka` gives answer `a` as the correct answer of question n
isCorrectAnswer(ka, n, a) ==
    \E j \in 1..Len(ka) : ka[j].questionNumber = n /\ ka[j].correctAnswer = a

\* the key `ka` has an entry for question n
hasEntry(ka, n) == \E j \in 1..Len(ka) : ka[j].questionNumber = n

\* every item of `answers` is marked correct exactly when the key says so
markedBy(answers, ka) ==
    \A j \in 1..Len(answers) :
        answers[j].isCorrect
            <=> isCorrectAnswer(ka, answers[j].questionNumber, answers[j].answer)

\* x and y are the same answers but for the isCorrect the client put in them
sameButIsCorrect(x, y) ==
    /\ Len(x) = Len(y)
    /\ \A j \in 1..Len(x) :
          [x[j] EXCEPT !.isCorrect = TRUE] = [y[j] EXCEPT !.isCorrect = TRUE]

\* C1: every submission stored through the public form is marked against the
\* authoritative key: each stored item is correct exactly when its answer is
\* the correct answer, for its question, of the key that had the greatest
\* createdAt among the assessment's keys when the handler looked the key up.
C1_FormMarkedByAuthoritativeKey ==
    \A i \in storedBy(FormRoute) :
        \E ka \in subs[i].latest : markedBy(subs[i].answers, ka)

\* C2: a POST /student-answers submission whose lookup comes after keys K1
\* and then K2 were saved is stored marked by the newest key of that moment
\* (K2), never by an older one: the key it used is the authoritative one and
\* the stored items are the sent items marked by it.
C2_LatestKeyWins ==
    \A i \in storedBy(AnswersRoute) :
        /\ subs[i].keyUsed \in subs[i].latest
        /\ sameButIsCorrect(subs[i].answers, subs[i].sent)
        /\ \A ka \in subs[i].latest : markedBy(subs[i].answers, ka)

\* C2 happens: two keys with different answers are stored, and a submission
\* is stored that was marked by the second and would be marked otherwise by
\* the first
C2_Witness ==
    /\ Len(keys) = 2
    /\ keys[1].assessmentId = keys[2].assessmentId
    /\ keys[1].createdAt < keys[2].createdAt
    /\ \E i \in storedBy(AnswersRoute) :
          /\ subs[i].assessmentId = keys[2].assessmentId
          /\ subs[i].latest = {keys[2].answers}
          /\ markedBy(subs[i].answers, keys[2].answers)
          /\ ~markedBy(subs[i].answers, keys[1].answers)

\* C3: two stored POST /student-answers submissions that differ only in the
\* isCorrect values the client sent, marked under the same authoritative key,
\* hold the same isCorrect values; and an item {1, A, isCorrect true} marked
\* under a key whose answer to question 1 is B is stored with isCorrect false.
C3_ClientIsCorrectDiscarded ==
    /\ \A i, j \in storedBy(AnswersRoute) :
          (/\ subs[i].assessmentId = subs[j].assessmentId
           /\ subs[i].latest = subs[j].latest
           /\ sameButIsCorrect(subs[i].sent, subs[j].sent))
          => \A n \in 1..Len(subs[i].answers) :
                subs[i].answers[n].isCorrect = subs[j].answers[n].isCorrect
    /\ \A i \in storedBy(AnswersRoute) :
          \A n \in 1..Len(subs[i].sent) :
             (/\ subs[i].sent[n] = Item(1, "A", TRUE)
              /\ subs[i].latest = {<<K(1, "B")>>})
             => subs[i].answers[n].isCorrect = FALSE

\* C3 happens: the answer A to question 1, sent once with isCorrect true and
\* once with isCorrect false under the key B, is stored twice with isCorrect
\* false
C3_Witness ==
    \E i, j \in storedBy(AnswersRoute) :
        /\ subs[i].sent = <<Item(1, "A", TRUE)>>
        /\ subs[j].sent = <<Item(1, "A", FALSE)>>
        /\ subs[i].latest = {<<K(1, "B")>>}
        /\ subs[j].latest = {<<K(1, "B")>>}
        /\ subs[i].answers[1].isCorrect = FALSE
        /\ subs[j].answers[1].isCorrect = FALSE

\* C4: an item whose questionNumber has no entry in the authoritative key is
\* marked isCorrect = false, whatever its answer field holds (a letter, the
\* empty string, or nothing), in every submission marked by
\* POST /student-answers, stored or about to be.
C4_AbsentQuestionIsWrong ==
    /\ \A i \in storedBy(AnswersRoute) :
          \A n \in 1..Len(subs[i].answers) :
             ~hasEntry(subs[i].keyUsed, subs[i].answers[n].questionNumber)
             => subs[i].answers[n].isCorrect = FALSE
    /\ \A i \in 1..Len(inflight) :
          inflight[i].route = AnswersRoute
          => \A n \in 1..Len(inflight[i].answers) :
                ~hasEntry(inflight[i].keyUsed,
                          inflight[i].answers[n].questionNumber)
                => inflight[i].answers[n].isCorrect = FALSE

-----------------------------------------------------------------------------
(* Properties: visibility and the gates *)

TeacherRoutes ==
    {"POST /assessments", "POST /assessments/from-bank", "POST /answer-keys",
     "POST /forms", "DELETE /clear-data"}

SessionRoutes ==
    TeacherRoutes \cup {"POST /me/role", "GET /all-data", "POST /student-answers"}

\* the role of the session a token opens (Undefined when it opens none)
roleOf(tok) == Session(tok).user.role

\* the latest assessments' submissions, all of them
hasAllSubmissions(body) ==
    \A a \in body.assessment :
        \A i \in 1..Len(subs) :
            subs[i].assessmentId = a.id
            => \E j \in 1..Len(body.studentAnswers) :
                  body.studentAnswers[j] = subs[i]

\* the key of the latest assessment, when it has one
hasKey(body) ==
    \A a \in body.assessment :
        keysOf(a.id) # {} => body.answerKey \in {{ka} : ka \in Authoritative(a.id)}

\* C5: the response of GET /all-data to a session of role student holds the
\* latest assessment only, never the answer key nor a submission; the
\* response to a session of role teacher holds the key and all submissions of
\* the latest assessment.
C5_StudentSeesShapeOnly ==
    (resp.route = "GET /all-data" /\ resp.status = 200)
    => /\ roleOf(resp.tok) = "aluno"
          => resp.body.answerKey = {} /\ resp.body.studentAnswers = <<>>
       /\ roleOf(resp.tok) = "professor"
          => hasKey(resp.body) /\ hasAllSubmissions(resp.body)

\* the token on whose behalf the step just taken acted: that of its response,
\* or that of the handler it left in flight
actor ==
    IF resp # NoResp THEN resp.tok
    ELSE IF inflight # <<>> THEN inflight[Len(inflight)].tok
    ELSE NoToken

\* C6: a request with a valid session of role student to a teacher route is
\* answered 403 and changes no collection; a collection changes only on
\* behalf of a session of role teacher; and a teacher's request to a teacher
\* route passes the gate (POST /assessments with the same payload creates the
\* assessment and answers 201).
C6_RoleGate ==
    [][ /\ (resp'.route \in TeacherRoutes /\ roleOf(resp'.tok) = "aluno")
           => /\ resp'.status = 403
              /\ UNCHANGED <<assessments, keys, subs, forms, inflight, nextId>>
        /\ (collections' # collections) => roleOf(actor') = "professor"
        /\ (resp'.route \in TeacherRoutes /\ roleOf(resp'.tok) = "professor")
           => resp'.status \notin {401, 403}
        /\ (resp'.route = "POST /assessments" /\ roleOf(resp'.tok) = "professor")
           => /\ resp'.status = 201
              /\ Len(assessments') = Len(assessments) + 1
      ]_vars

\* C6 happens: the student is answered 403 on POST /assessments, after the
\* teacher created an assessment with the same payload
C6_Witness ==
    /\ resp.route = "POST /assessments"
    /\ roleOf(resp.tok) = "aluno"
    /\ resp.status = 403
    /\ \E i \in 1..Len(assessments) : assessments[i].name = "P1"

\* C7: a request with no bearer token, or with one that fails verification,
\* to a route that needs a session is answered 401 (never 403, never a
\* result of reading the collections) and changes nothing; and nothing but
\* the response changes except on behalf of a valid session.
C7_AuthenticationFirst ==
    [][ /\ (resp'.route \in SessionRoutes /\ resp'.tok \in {NoToken, BadToken})
           => /\ resp'.status = 401
              /\ UNCHANGED <<users, issued, assessments, keys, subs, forms,
                             nextId, now, inflight>>
        /\ (<<users, issued, assessments, keys, subs, forms, nextId, now,
              inflight>>' # <<users, issued, assessments, keys, subs, forms,
                              nextId, now, inflight>>)
           => Session(actor').ok
      ]_vars

\* C7 happens: DELETE /clear-data with a token that fails verification is
\* answered 401 while there is an assessment to delete
C7_Witness ==
    /\ resp.route = "DELETE /clear-data"
    /\ resp.tok = BadToken
    /\ resp.status = 401
    /\ assessments # <<>>

\* what a client can tell two refusals apart by
outcome(r) == <<r.status, r.error>>

\* C8: a valid session whose role is unset, on a teacher route, is refused
\* with an outcome (RoleNotSet) that differs from the Forbidden outcome a
\* session of role student gets on that route.
C8_RoleNotSetDistinguished ==
    (/\ resp.route \in TeacherRoutes
     /\ Session(resp.tok).ok
     /\ roleOf(resp.tok) = Null)
    => \A st \in issued :
          roleOf(st) = "aluno" => outcome(resp) # outcome(Teacher(st))

-----------------------------------------------------------------------------
(* Properties: roles and tokens *)

Roles == {"aluno", "professor"}

\* C9, as stated: once the stored role of an identity is student or teacher,
\* no step changes it.
C9_RoleSetOnce ==
    [][ \A u \in 1..Len(users) :
           users[u].role \in Roles => users'[u].role = users[u].role ]_vars

\* C9, amended: every POST /me/role with a valid session and a role of
\* {student, teacher} stores that role for the caller, whatever role was
\* stored before, and changes no other identity; a stored role that is
\* student or teacher is never unset again, and only POST /me/role changes
\* the role of an existing identity.
C9_RoleReplaced ==
    [][ /\ (resp'.route = "POST /me/role" /\ resp'.status = 200)
           => /\ resp'.body.asked \in Roles
              /\ resp'.body.role = resp'.body.asked
              /\ users' = [users EXCEPT ![resp'.body.id].role = resp'.body.asked]
        /\ \A u \in 1..Len(users) :
              /\ users[u].role \in Roles => users'[u].role \in Roles
              /\ users'[u].role # users[u].role
                 => (resp'.route = "POST /me/role" /\ resp'.body.id = u)
      ]_vars

\* C9 happens (token-role design): an identity whose token says student, as
\* it was at issuance, called POST /me/role and is now stored as teacher
C9_Witness ==
    /\ resp.route = "POST /me/role"
    /\ resp.status = 200
    /\ resp.tok.role = "aluno"
    /\ users[resp.tok.uid].role = "professor"

\* C10: in the token-role design every answer of a teacher route to a signed
\* token is decided by the role in the token (403 exactly when that role is
\* not teacher), whatever role the user document holds by then; and
\* POST /me/role signs no token.
C10_TokenRoleDecides ==
    [][ variant = "token"
        => /\ (resp'.route \in TeacherRoutes /\ resp'.tok \in issued)
              => (resp'.status = 403 <=> resp'.tok.role # "professor")
           /\ (resp'.route = "POST /me/role") => issued' = issued
      ]_vars

\* C10 happens: a token signed for a student is answered 403 on a teacher
\* route after POST /me/role made its owner a teacher in the store
C10_Witness ==
    /\ variant = "token"
    /\ resp.route \in TeacherRoutes
    /\ resp.tok \in issued
    /\ resp.tok.role = "aluno"
    /\ users[resp.tok.uid].role = "professor"
    /\ resp.status = 403

-----------------------------------------------------------------------------
(* Store-verified roles *)

\* a token signed for an account whose document is no longer in the store
GoneToken == signToken(Len(Teachers) + 1, Null)

\* Roles in the store: the teacher and the student change their roles and
\* call the teacher routes with the tokens of their signups; a third token
\* outlives its account
InitStore ==
    /\ variant \in {"token", "store"}
    /\ users = Teachers
    /\ issued = {signToken(u, users[u].role) : u \in 1..Len(users)}
                  \cup {GoneToken}
    /\ Empty

NextStore ==
    \/ \E tok \in issued, role \in RoleInputs :
          PostMeRole(tok, [role |-> role])
    \/ \E tok \in issued : GetAllData(tok)
    \/ \E tok \in issued :
          PostAssessments(tok, [name |-> "P1", questionsCount |-> 1,
                                questions |-> <<Q(1)>>])
    \/ \E tok \in issued, aid \in AssessIds :
          PostAnswerKeys(tok, [assessmentId |-> aid, answers |-> <<K(1, "A")>>])
    \/ \E tok \in issued, aid \in AssessIds :
          PostForms(tok, [assessmentId |-> aid, requireName |-> Undefined])
    \/ \E tok \in issued : DeleteClearData(tok)

SpecStore == InitStore /\ [][NextStore]_vars

\* C11: in the store-role design every request is gated by the role the
\* store holds when the request arrives, so the first request after a
\* POST /me/role, with the token issued before it, is gated by the new role
\* (403 on a teacher route exactly when the stored role is not teacher); and
\* a token whose account is not in the store is answered 401 on every
\* session route.
C11_StoredRoleDecides ==
    [][ variant = "store"
        => /\ (resp'.route \in TeacherRoutes /\ resp'.tok \in issued
               /\ resp'.tok.uid \in 1..Len(users))
              => (resp'.status = 403
                    <=> users[resp'.tok.uid].role # "professor")
           /\ (resp'.route = "POST /me/role" /\ resp'.status = 200)
              => users'[resp'.tok.uid].role = resp'.body.asked
           /\ (resp'.route \in SessionRoutes /\ resp'.tok \in issued
               /\ resp'.tok.uid \notin 1..Len(users))
              => /\ resp'.status = 401
                 /\ UNCHANGED <<users, issued, assessments, keys, subs, forms,
                                nextId, now, inflight>>
      ]_vars

\* C11 happens: the account that signed up as student made itself teacher and
\* then created an assessment with the token of its signup
C11_Witness ==
    /\ variant = "store"
    /\ resp.route = "POST /assessments"
    /\ resp.status = 201
    /\ resp.tok = signToken(2, "aluno")
    /\ Teachers[2].role = "aluno"
    /\ users[2].role = "professor"

\* C11 happens, second case: the token of the removed account is answered 401
C11_WitnessGone ==
    /\ variant = "store"
    /\ resp.tok = GoneToken
    /\ resp.status = 401

-----------------------------------------------------------------------------
(* Signup and login *)

\* the logins tried: those of LoginInputs, and those for an email that no
\* signup uses
LoginProbes ==
    LoginInputs \cup [email : {<<"b">>}, password : PasswordInputs]

\* Accounts only: signups and logins on an empty User collection
NextSignup ==
    \/ \E body \in SignupInputs : PostAuthSignup(body)
    \/ \E body \in LoginProbes : PostAuthLogin(body)

SpecSignup == InitAccount /\ [][NextSignup]_vars

\* C12: a signup that succeeds with a requested role other than student or
\* teacher (absent included) creates an identity whose role is unset, and the
\* session it returns reports the role unset.
C12_OtherRoleIsUnset ==
    [][ \A body \in SignupInputs :
           (PostAuthSignup(body) /\ resp'.status = 201 /\ body.role \notin Roles)
           => /\ users'[Len(users')].role = Null
              /\ resp'.body.role = Null
      ]_vars

\* an email as the data model compares it: lower case, trimmed
normalized(email) == trim(toLowerCase(email))

\* an identity whose email equals `email` after normalization
taken(email) ==
    \E u \in 1..Len(users) : normalized(users[u].email) = normalized(email)

\* C13: a signup with the required fields whose email equals, after
\* normalization, the email of an existing identity is answered 409 and
\* creates no identity; and no two stored identities have emails that are
\* equal after normalization.
C13_NormalizedEmailUnique ==
    [][ /\ \A body \in SignupInputs :
              (/\ PostAuthSignup(body)
               /\ body.email # <<>> /\ body.password # "" /\ body.name # ""
               /\ taken(body.email))
              => resp'.status = 409 /\ users' = users
        /\ \A u, v \in 1..Len(users') :
              normalized(users'[u].email) = normalized(users'[v].email)
              => u = v
      ]_vars

\* no identity has this email, however it is written
noAccount(body) == body.email # <<>> /\ ~taken(body.email)

\* an identity has exactly this email, and the password is not its password
wrongPassword(body) ==
    \E u \in 1..Len(users) :
        /\ users[u].email = body.email
        /\ ~compare(body.password, users[u].passwordHash)

\* C14: a login for an email with no account is answered exactly as a login
\* with the same password for an existing account whose password it is not
\* (the step of the one is a step of the other: same status, same message,
\* same body), and neither signs a token.
C14_LoginFailsSymmetrically ==
    [][ /\ \A b1, b2 \in LoginProbes :
              (/\ b1.password = b2.password
               /\ noAccount(b1) /\ wrongPassword(b2)
               /\ (PostAuthLogin(b1) \/ PostAuthLogin(b2)))
              => PostAuthLogin(b1) /\ PostAuthLogin(b2)
        /\ \A b \in LoginProbes :
              (PostAuthLogin(b) /\ (noAccount(b) \/ wrongPassword(b)))
              => /\ resp'.status \in {400, 401}
                 /\ resp'.body = NoBody
                 /\ issued' = issued
      ]_vars

\* C14 happens: a login was just refused with 401 in a state that holds an
\* account, whose password the request may have missed, and an email with no
\* account, which the request may have named
C14_Witness ==
    /\ resp.route = "POST /auth/login"
    /\ resp.status = 401
    /\ \E b1, b2 \in LoginProbes :
          /\ b1.password = b2.password
          /\ noAccount(b1) /\ wrongPassword(b2)
          /\ outcome(resp) = outcome(invalidCredentials(TRUE))

-----------------------------------------------------------------------------
(* Catalog *)

\* the name of the assessments built from the bank, which no other has
BankName == "P2"

\* the key payloads of the catalog: a key, another, and none
CatalogKeyInputs == KeyInputs \cup {<<>>}

\* Catalog: the teacher creates assessments, directly and from the bank
\* (token-role design), saves keys and clears the data
NextCatalog ==
    \/ \E tok \in issued, body \in AssessInputs :
          Teacher(tok).ok /\ PostAssessments(tok, body)
    \/ \E tok \in issued, ids \in BankInputs :
          /\ variant = "token" /\ Teacher(tok).ok
          /\ PostAssessmentsFromBank(tok, [name |-> BankName,
                                           questionIds |-> ids])
    \/ \E i \in 1..Len(inflight) : InsertBankKey(i)
    \/ \E i \in 1..Len(inflight) : FailBankKey(i)
    \/ \E tok \in issued, aid \in AssessIds \cup {NoId},
          answers \in CatalogKeyInputs :
          /\ Teacher(tok).ok
          /\ PostAnswerKeys(tok, [assessmentId |-> aid, answers |-> answers])
    \/ \E tok \in issued : Teacher(tok).ok /\ DeleteClearData(tok)

SpecCatalog == Init /\ [][NextCatalog]_vars

C16_BankPairInStep ==
    /\ \A i \in 1..Len(assessments) :
          assessments[i].name = BankName => keysOf(assessments[i].id) # {}
    /\ \A k \in 1..Len(keys) : findAssessment(keys[k].assessmentId) # {}

\* the ids all name questions of the bank
allInBank(ids) == \A i \in 1..Len(ids) : \E q \in Bank : q.id = ids[i]

\* the correct answer the bank holds for an id
bankAnswer(id) == (CHOOSE q \in Bank : q.id = id).correctAnswer

\* C17: for every non-empty sequence of ids that are all in the bank, the
\* same id twice included, POST /assessments/from-bank creates an assessment
\* whose questions are numbered 1..N in the order given, and prepares the key
\* whose entry i holds the correct answer of the i-th id; it refuses only a
\* sequence with an id that is not in the bank.
C17_BankOrderKept ==
    [][ \A tok \in issued, ids \in BankInputs :
           (/\ Teacher(tok).ok
            /\ PostAssessmentsFromBank(tok, [name |-> BankName,
                                             questionIds |-> ids])
            /\ ids # <<>> /\ allInBank(ids))
           => /\ resp'.status \notin {400, 500}
              /\ Len(assessments') = Len(assessments) + 1
              /\ LET a == assessments'[Len(assessments')]
                     r == inflight'[Len(inflight')]
                 IN  /\ a.questionsCount = Len(ids)
                     /\ Len(a.questions) = Len(ids)
                     /\ \A i \in 1..Len(ids) : a.questions[i].number = i
                     /\ Len(r.answers) = Len(ids)
                     /\ \A i \in 1..Len(ids) :
                           r.answers[i] = K(i, bankAnswer(ids[i]))
      ]_vars

\* C18: a POST /answer-keys that succeeds adds exactly one key, the one
\* sent, after the keys already stored, which stay as they are, and changes
\* no other collection; for an assessmentId that names no assessment it
\* answers 404, for an absent assessmentId or an empty answers list 400, and
\* in both cases nothing is stored.
C18_KeyAppended ==
    [][ \A tok \in issued, aid \in AssessIds \cup {NoId},
           answers \in CatalogKeyInputs :
           (/\ Teacher(tok).ok
            /\ PostAnswerKeys(tok, [assessmentId |-> aid, answers |-> answers]))
           => IF aid = NoId \/ answers = <<>>
              THEN /\ resp'.status = 400
                   /\ UNCHANGED <<assessments, keys, subs, forms, inflight>>
              ELSE IF \A i \in 1..Len(assessments) : assessments[i].id # aid
              THEN /\ resp'.status = 404
                   /\ UNCHANGED <<assessments, keys, subs, forms, inflight>>
              ELSE /\ resp'.status = 201
                   /\ Len(keys') = Len(keys) + 1
                   /\ SubSeq(keys', 1, Len(keys)) = keys
                   /\ keys'[Len(keys')].assessmentId = aid
                   /\ keys'[Len(keys')].answers = answers
                   /\ \A k \in 1..Len(keys) :
                         keys[k].createdAt < keys'[Len(keys')].createdAt
                   /\ UNCHANGED <<users, assessments, subs, forms, inflight>>
      ]_vars

\* C18 happens: a second key, with other answers, was just saved for an
\* assessment and the first is still stored before it
C18_Witness ==
    /\ resp.route = "POST /answer-keys"
    /\ resp.status = 201
    /\ Len(keys) = 2
    /\ keys[1].assessmentId = keys[2].assessmentId
    /\ keys[1].answers # keys[2].answers
    /\ resp.body = keys[2].answers

-----------------------------------------------------------------------------
(* Submission input *)

\* the answers lists tried: none, and one answer
AnswersInputs == {<<>>, <<Item(1, "A", FALSE)>>}

SubmitBodies ==
    [assessmentId : AssessIds, studentName : NameInputs,
     answers : AnswersInputs]

\* Submission input: the student submits, with and without a name and
\* answers, before and after the teacher saved a key
NextSubmit ==
    \/ \E tok \in issued :
          /\ Teacher(tok).ok
          /\ PostAssessments(tok, [name |-> "P1", questionsCount |-> 1,
                                   questions |-> <<Q(1)>>])
    \/ \E tok \in issued, aid \in AssessIds :
          /\ Teacher(tok).ok
          /\ PostAnswerKeys(tok, [assessmentId |-> aid, answers |-> <<K(1, "A")>>])
    \/ \E tok \in issued, body \in SubmitBodies :
          ~Teacher(tok).ok /\ PostStudentAnswers(tok, body)
    \/ \E i \in 1..Len(inflight) : InsertSubmission(i)
    \/ \E tok \in issued : Teacher(tok).ok /\ DeleteClearData(tok)

SpecSubmit == Init /\ [][NextSubmit]_vars

\* C19: a POST /student-answers whose studentName is empty or whose answers
\* list is empty is answered 400 and stores nothing, now or later; and no
\* submission stored by POST /student-answers has zero answer items.
C19_NameAndAnswersRequired ==
    [][ /\ \A tok \in issued, body \in SubmitBodies :
              (/\ PostStudentAnswers(tok, body)
               /\ (body.studentName = <<>> \/ body.answers = <<>>))
              => /\ resp'.status = 400
                 /\ UNCHANGED <<subs, inflight>>
        /\ \A i \in 1..Len(subs') :
              subs'[i].route = AnswersRoute => Len(subs'[i].answers) > 0
      ]_vars

\* C20: a POST /student-answers for an assessment that has no key when the
\* handler looks it up is refused (400, no key defined) and stores nothing,
\* now or later; a submission goes on to be stored only marked by a key that
\* was stored for its assessment at the lookup, and so is every stored one.
C20_NoKeyNoSubmission ==
    [][ /\ \A tok \in issued, body \in SubmitBodies :
              (/\ ~Teacher(tok).ok
               /\ PostStudentAnswers(tok, body)
               /\ body.studentName # <<>>)
              => IF keysOf(body.assessmentId) = {}
                 THEN /\ resp'.status = 400
                      /\ resp'.error
                           = "Gabarito nao definido para esta avaliacao."
                      /\ UNCHANGED <<subs, inflight>>
                 ELSE /\ Len(inflight') = Len(inflight) + 1
                      /\ \E k \in keysOf(body.assessmentId) :
                            inflight'[Len(inflight')].keyUsed = k.answers
        /\ \A i \in 1..Len(subs') :
              subs'[i].route = AnswersRoute
              => subs'[i].latest # {} /\ subs'[i].keyUsed \in subs'[i].latest
      ]_vars

\* C20 happens: the student was just refused for want of a key, on an
\* assessment that is stored
C20_Witness ==
    /\ resp.route = AnswersRoute
    /\ resp.status = 400
    /\ resp.error = "Gabarito nao definido para esta avaliacao."
    /\ assessments # <<>>
    /\ keys = <<>>
    /\ subs = <<>>

-----------------------------------------------------------------------------
(* Unknown assessment *)

\* C21: a POST /student-answers with a name, for an assessmentId that matches
\* no stored assessment, is answered 404 (assessment not found) and stores
\* nothing, now or later.
C21_UnknownAssessmentNotFound ==
    [][ \A tok \in issued, body \in SubmitBodies :
           (/\ ~Teacher(tok).ok
            /\ PostStudentAnswers(tok, body)
            /\ body.studentName # <<>>
            /\ findAssessment(body.assessmentId) = {})
           => /\ resp'.status = 404
              /\ UNCHANGED <<subs, inflight>>
      ]_vars

-----------------------------------------------------------------------------
(* Handlers step by step: what another request may do between the awaits *)

KeysRoute == "POST /answer-keys"
FormsRoute == "POST /forms"
ClearRoute == "DELETE /clear-data"

\* POST /answer-keys, up to and including Assessment.exists
PostAnswerKeysExists(tok, body) ==
    LET gate == Teacher(tok)
    IN  IF ~gate.ok THEN Refuse(KeysRoute, tok, gate)
        ELSE IF body.assessmentId = NoId \/ body.answers = <<>>
        THEN Refuse400(KeysRoute, tok, "Gabarito invalido.")
        ELSE IF findAssessment(body.assessmentId) = {}
        THEN Refuse404(KeysRoute, tok, "Avaliacao nao encontrada.")
        ELSE /\ Len(keys) + pendingKeys < MaxKeys
             /\ inflight' = Append(inflight,
                   [route |-> KeysRoute, tok |-> tok,
                    assessmentId |-> body.assessmentId,
                    answers |-> body.answers])
             /\ resp' = NoResp
             /\ UNCHANGED <<variant, users, issued, assessments, keys, subs,
                            forms, nextId, now>>

\* AnswerKey.create(...) of POST /answer-keys, and the response
InsertAnswerKey(i) ==
    LET r == inflight[i]
        key == [assessmentId |-> r.assessmentId, answers |-> r.answers,
                createdAt |-> now + 1]
    IN  /\ r.route = KeysRoute
        /\ inflight' = RemoveAt(inflight, i)
        /\ keys' = AnswerKeyCreate(key)
        /\ Respond(r.route, r.tok, 201, "", key.answers)
        /\ now' = now + 1
        /\ UNCHANGED <<variant, users, issued, assessments, subs, forms,
                       nextId>>

\* POST /forms, up to and including Assessment.exists
PostFormsExists(tok, body) ==
    LET gate == Teacher(tok)
    IN  IF ~gate.ok THEN Refuse(FormsRoute, tok, gate)
        ELSE IF body.assessmentId = NoId
        THEN Refuse400(FormsRoute, tok, "assessmentId e obrigatorio.")
        ELSE IF findAssessment(body.assessmentId) = {}
        THEN Refuse404(FormsRoute, tok, "Avaliacao nao encontrada.")
        ELSE /\ ~\E j \in 1..Len(inflight) : inflight[j].route = FormsRoute
             /\ inflight' = Append(inflight,
                   [route |-> FormsRoute, tok |-> tok,
                    assessmentId |-> body.assessmentId,
                    requireName |->
                       IF body.requireName \in {"true", "false"}
                       THEN body.requireName = "true" ELSE TRUE])
             /\ resp' = NoResp
             /\ UNCHANGED <<variant, users, issued, assessments, keys, subs,
                            forms, nextId, now>>

\* crypto.randomBytes and Form.create(...) of POST /forms, and the response
InsertForm(i) ==
    LET r == inflight[i]
    IN  /\ r.route = FormsRoute
        /\ inflight' = RemoveAt(inflight, i)
        /\ \E formId \in FormIds :
              IF findForm(formId) # {}
              THEN \* the unique index on formId rejects the insert
                   /\ Respond(r.route, r.tok, 500,
                              "Nao foi possivel criar o formulario.", NoBody)
                   /\ UNCHANGED forms
              ELSE /\ forms' = Append(forms,
                         [formId |-> formId, assessmentId |-> r.assessmentId,
                          requireName |-> r.requireName])
                   /\ Respond(r.route, r.tok, 201, "", formId)
        /\ UNCHANGED <<variant, users, issued, assessments, keys, subs,
                       nextId, now>>

\* the four collections DELETE /clear-data empties
Cleared == {"assessments", "keys", "subs", "forms"}

\* DELETE /clear-data, up to the start of the four deleteMany({}) of
\* Promise.all
DeleteClearDataStart(tok) ==
    LET gate == Teacher(tok)
    IN  IF ~gate.ok THEN Refuse(ClearRoute, tok, gate)
        ELSE /\ ~\E j \in 1..Len(inflight) : inflight[j].route = ClearRoute
             /\ inflight' = Append(inflight,
                   [route |-> ClearRoute, tok |-> tok, left |-> Cleared])
             /\ resp' = NoResp
             /\ UNCHANGED <<variant, users, issued, assessments, keys, subs,
                            forms, nextId, now>>

\* one deleteMany({}) of the Promise.all takes effect
DeleteManyResolves(i, c) ==
    LET r == inflight[i]
    IN  /\ r.route = ClearRoute
        /\ c \in r.left
        /\ inflight' = [inflight EXCEPT ![i].left = @ \ {c}]
        /\ assessments' = IF c = "assessments" THEN deleteMany(assessments)
                           ELSE assessments
        /\ keys' = IF c = "keys" THEN deleteMany(keys) ELSE keys
        /\ subs' = IF c = "subs" THEN deleteMany(subs) ELSE subs
        /\ forms' = IF c = "forms" THEN deleteMany(forms) ELSE forms
        /\ resp' = NoResp
        /\ UNCHANGED <<variant, users, issued, nextId, now>>

\* res.json({ok: true}) of DELETE /clear-data, once the four have resolved
DeleteClearDataEnd(i) ==
    LET r == inflight[i]
    IN  /\ r.route = ClearRoute
        /\ r.left = {}
        /\ inflight' = RemoveAt(inflight, i)
        /\ Respond(r.route, r.tok, 200, "", NoBody)
        /\ UNCHANGED <<variant, users, issued, assessments, keys, subs,
                       forms, nextId, now>>

-----------------------------------------------------------------------------
(* Distribution links under interleaving *)

\* the tokens a client may ask for: the one minted, and one never minted
FormTokens == FormIds \cup {"f0"}

LinkInputs == [studentName : FormNameInputs, q : [{1} -> {"A", Undefined}]]

\* Links: the teacher creates an assessment, a key and a link (the link in
\* two steps) and clears the data, while anonymous clients open and submit
\* the form
NextLink ==
    \/ \E tok \in issued :
          /\ Teacher(tok).ok
          /\ PostAssessments(tok, [name |-> "P1", questionsCount |-> 1,
                                   questions |-> <<Q(1)>>])
    \/ \E tok \in issued, aid \in AssessIds :
          /\ Teacher(tok).ok
          /\ PostAnswerKeys(tok, [assessmentId |-> aid,
                                  answers |-> <<K(1, "A")>>])
    \/ \E tok \in issued, aid \in AssessIds :
          /\ Teacher(tok).ok
          /\ PostFormsExists(tok, [assessmentId |-> aid,
                                   requireName |-> Undefined])
    \/ \E i \in 1..Len(inflight) : InsertForm(i)
    \/ \E formId \in FormTokens : GetForm(formId)
    \/ \E formId \in FormTokens, fields \in LinkInputs :
          PostFormSubmit(formId, fields)
    \/ \E i \in 1..Len(inflight) : InsertSubmission(i)
    \/ \E tok \in issued : Teacher(tok).ok /\ DeleteClearData(tok)

SpecLink == Init /\ [][NextLink]_vars

\* the link's assessment is missing or has no key
ungraded(form) ==
    findAssessment(form.assessmentId) = {} \/ keysOf(form.assessmentId) = {}

\* C22: GET /form/:formId and POST /form/:formId/submit answer 404 when no
\* link has the token, and "Formulario incompleto." when the link's assessment
\* is missing or has no key at the lookup; in both cases no question list is
\* in the response and no submission is stored, then or later: every stored
\* form submission found a key at its lookup.
C22_NoFormForUngraded ==
    [][ /\ \A formId \in FormTokens :
              GetForm(formId)
              => /\ findForm(formId) = {}
                    => resp'.status = 404 /\ resp'.body = NoBody
                 /\ \A form \in findForm(formId) :
                       ungraded(form)
                       => /\ resp'.status = 400
                          /\ resp'.error = "Formulario incompleto."
                          /\ resp'.body = NoBody
        /\ \A formId \in FormTokens, fields \in LinkInputs :
              PostFormSubmit(formId, fields)
              => /\ findForm(formId) = {}
                    => /\ resp'.status = 404
                       /\ UNCHANGED <<subs, inflight>>
                 /\ \A form \in findForm(formId) :
                       ungraded(form)
                       => /\ resp'.status = 400
                          /\ resp'.error = "Formulario incompleto."
                          /\ UNCHANGED <<subs, inflight>>
        /\ \A i \in 1..Len(subs') :
              subs'[i].route = FormRoute => subs'[i].latest # {}
      ]_vars

\* C22 happens: a link is stored whose assessment is gone, and a submission
\* through it was just refused as incomplete
C22_Witness ==
    /\ forms # <<>>
    /\ findAssessment(forms[1].assessmentId) = {}
    /\ resp.route = FormRoute
    /\ resp.status = 400
    /\ resp.error = "Formulario incompleto."
    /\ subs = <<>>

-----------------------------------------------------------------------------
(* Public submissions *)

\* a two-question assessment and its key
TwoQuestions == [name |-> "P1", questionsCount |-> 2,
                 questions |-> <<Q(1), Q(2)>>]
TwoAnswers == <<K(1, "A"), K(2, "B")>>

\* what a field q<number> may hold: a choice, a value outside A..E, nothing
PublicVals == {"A", "F", Undefined}
\* the studentName field: absent, blank, and a name with spaces around and
\* a run of spaces inside
PublicNames == {Absent, Field(<<Space>>),
                Field(<<Space, "a", Space, Space, "b", Space>>)}
PublicInputs == [studentName : PublicNames, q : [{1, 2} -> PublicVals]]

\* Public submissions: links that require a name and links that do not, and
\* anonymous clients posting complete and incomplete forms
NextPublic ==
    \/ \E tok \in issued :
          Teacher(tok).ok /\ PostAssessments(tok, TwoQuestions)
    \/ \E tok \in issued, aid \in AssessIds :
          /\ Teacher(tok).ok
          /\ PostAnswerKeys(tok, [assessmentId |-> aid, answers |-> TwoAnswers])
    \/ \E tok \in issued, aid \in AssessIds, requireName \in RequireNameInputs :
          /\ Teacher(tok).ok
          /\ PostForms(tok, [assessmentId |-> aid, requireName |-> requireName])
    \/ \E formId \in FormIds, fields \in PublicInputs :
          PostFormSubmit(formId, fields)
    \/ \E i \in 1..Len(inflight) : InsertSubmission(i)
    \/ \E tok \in issued : Teacher(tok).ok /\ DeleteClearData(tok)

SpecPublic == Init /\ [][NextPublic]_vars

\* the link has its assessment and a key
graded(form) ==
    findAssessment(form.assessmentId) # {} /\ keysOf(form.assessmentId) # {}

\* every question of the assessment carries a choice in A..E
allAnswered(assessment, fields) ==
    \A n \in 1..Len(assessment.questions) :
        fields.q[assessment.questions[n].number] \in Enum

\* C23: through a link whose assessment has N questions and a key, a form
\* with a question left out or holding a value outside A..E is refused
\* ("Preencha todas as questoes.") and stores nothing; a form in which every
\* question carries a choice succeeds and stores exactly one submission of
\* N graded items, one per question number in the assessment's order.
C23_FormCompleteness ==
    [][ /\ \A formId \in FormIds, fields \in PublicInputs :
              PostFormSubmit(formId, fields)
              => \A form \in findForm(formId) :
                    graded(form)
                    => \A assessment \in findAssessment(form.assessmentId) :
                          IF ~allAnswered(assessment, fields)
                          THEN /\ resp'.status = 400
                               /\ resp'.error = "Preencha todas as questoes."
                               /\ UNCHANGED <<subs, inflight>>
                          ELSE /\ Len(inflight') = Len(inflight) + 1
                               /\ LET r == inflight'[Len(inflight')]
                                  IN  /\ Len(r.answers) = assessment.questionsCount
                                      /\ \A n \in 1..Len(r.answers) :
                                            /\ r.answers[n].questionNumber
                                                 = assessment.questions[n].number
                                            /\ r.answers[n].answer
                                                 = fields.q[assessment.questions[n].number]
        /\ \A i \in 1..Len(inflight) :
              (InsertSubmission(i) /\ inflight[i].route = FormRoute)
              => /\ resp'.status = 200
                 /\ Len(subs') = Len(subs) + 1
                 /\ SubSeq(subs', 1, Len(subs)) = subs
                 /\ subs'[Len(subs')].answers = inflight[i].answers
      ]_vars

\* the name the data model gives a public submission
publicName(form, field) ==
    IF ~form.requireName \/ ~field.present THEN Anonimo
    ELSE collapse(trim(field.value))

\* C24: a public submission is stored under the placeholder name when the
\* link does not require a name (whatever studentName was sent) or when no
\* studentName was sent, and otherwise under the name sent, trimmed and with
\* its runs of spaces collapsed.
C24_PublicName ==
    [][ /\ \A formId \in FormIds, fields \in PublicInputs :
              (/\ PostFormSubmit(formId, fields)
               /\ Len(inflight') = Len(inflight) + 1)
              => \A form \in findForm(formId) :
                    inflight'[Len(inflight')].studentName
                       = publicName(form, fields.studentName)
        /\ \A i \in 1..Len(inflight) :
              (InsertSubmission(i) /\ inflight[i].route = FormRoute)
              => /\ Len(subs') = Len(subs) + 1
                 /\ subs'[Len(subs')].studentName = inflight[i].studentName
      ]_vars

-----------------------------------------------------------------------------
(* Lifetime of the stored documents *)

\* the _id of the first assessment created
FirstId == 1

\* a form with its one question answered and no studentName
CompleteForm == [studentName |-> Absent, q |-> [n \in {1} |-> "A"]]

\* Every route that writes, and the choice of a role: the teacher builds the
\* catalog and clears it, the student and anonymous clients submit to the
\* first assessment
NextClear ==
    \/ \E tok \in issued :
          /\ Teacher(tok).ok
          /\ PostAssessments(tok, [name |-> "P1", questionsCount |-> 1,
                                   questions |-> <<Q(1)>>])
    \/ \E tok \in issued :
          /\ variant = "token"
          /\ Teacher(tok).ok
          /\ PostAssessmentsFromBank(tok, [name |-> BankName,
                                           questionIds |-> <<"q1">>])
    \/ \E i \in 1..Len(inflight) : InsertBankKey(i)
    \/ \E tok \in issued :
          /\ Teacher(tok).ok
          /\ PostAnswerKeys(tok, [assessmentId |-> FirstId,
                                  answers |-> <<K(1, "A")>>])
    \/ \E tok \in issued :
          /\ Teacher(tok).ok
          /\ PostForms(tok, [assessmentId |-> FirstId,
                             requireName |-> Undefined])
    \/ \E tok \in issued :
          /\ ~Teacher(tok).ok
          /\ PostStudentAnswers(tok, [assessmentId |-> FirstId,
                                      studentName |-> <<"a">>,
                                      answers |-> <<Item(1, "A", TRUE)>>])
    \/ \E formId \in FormIds : PostFormSubmit(formId, CompleteForm)
    \/ \E i \in 1..Len(inflight) : InsertSubmission(i)
    \/ \E tok \in issued :
          ~Teacher(tok).ok /\ PostMeRole(tok, [role |-> "aluno"])
    \/ \E tok \in issued : DeleteClearData(tok)

SpecClear == Init /\ [][NextClear]_vars

\* the documents of a collection before the step are there after it, as they
\* were and where they were
kept(docs, docsAfter) ==
    /\ Len(docs) <= Len(docsAfter)
    /\ \A i \in 1..Len(docs) : docsAfter[i] = docs[i]

\* C25: DELETE /clear-data by a teacher leaves the four collections empty
\* and the users as they were; every step that is not a DELETE /clear-data
\* keeps every stored assessment, key, submission and link as it was.
C25_OnlyClearDataDeletes ==
    [][ /\ \A tok \in issued :
              (Teacher(tok).ok /\ DeleteClearData(tok))
              => /\ assessments' = <<>>
                 /\ keys' = <<>>
                 /\ subs' = <<>>
                 /\ forms' = <<>>
                 /\ users' = users
                 /\ resp'.status = 200
        /\ \/ \E tok \in issued : Teacher(tok).ok /\ DeleteClearData(tok)
           \/ /\ kept(assessments, assessments')
              /\ kept(keys, keys')
              /\ kept(subs, subs')
              /\ kept(forms, forms')
      ]_vars

\* C25 happens: a teacher's DELETE /clear-data has just emptied the
\* collections, after an assessment and a key had been stored
C25_Witness ==
    /\ resp.route = "DELETE /clear-data"
    /\ resp.status = 200
    /\ nextId > 1
    /\ now >= 2
    /\ assessments = <<>> /\ keys = <<>> /\ subs = <<>> /\ forms = <<>>

-----------------------------------------------------------------------------
(* Submissions and keys under interleaving *)

\* Keys and submissions: the student submits to the first assessment while the teacher
\* saves one key after another for it, and clears the data
NextKept ==
    \/ \E tok \in issued :
          /\ Teacher(tok).ok
          /\ PostAssessments(tok, [name |-> "P1", questionsCount |-> 1,
                                   questions |-> <<Q(1)>>])
    \/ \E tok \in issued, answers \in KeyInputs :
          /\ Teacher(tok).ok
          /\ PostAnswerKeys(tok, [assessmentId |-> FirstId,
                                  answers |-> answers])
    \/ \E tok \in issued :
          /\ ~Teacher(tok).ok
          /\ PostStudentAnswers(tok, [assessmentId |-> FirstId,
                                      studentName |-> <<"a">>,
                                      answers |-> <<Item(1, "A", TRUE)>>])
    \/ \E i \in 1..Len(inflight) : InsertSubmission(i)
    \/ \E tok \in issued : Teacher(tok).ok /\ DeleteClearData(tok)

SpecKept == Init /\ [][NextKept]_vars

\* C26: while POST /student-answers and POST /answer-keys requests for an
\* assessment interleave, a submission request that finds a key goes in
\* flight exactly once, marked item by item by one key, a most recently
\* created one at its lookup; its insert adds exactly that submission after
\* the stored ones; and no other step changes or drops a stored submission or
\* one in flight.
C26_SubmissionsNeverContend ==
    [][ /\ \A tok \in issued, aid \in {FirstId},
                 answers \in {<<Item(1, "A", TRUE)>>} :
              (/\ ~Teacher(tok).ok
               /\ PostStudentAnswers(tok, [assessmentId |-> aid,
                                           studentName |-> <<"a">>,
                                           answers |-> answers])
               /\ keysOf(aid) # {})
              => /\ Len(inflight') = Len(inflight) + 1
                 /\ SubSeq(inflight', 1, Len(inflight)) = inflight
                 /\ LET r == inflight'[Len(inflight')]
                    IN  /\ r.assessmentId = aid
                        /\ r.keyUsed \in Authoritative(aid)
                        /\ markedBy(r.answers, r.keyUsed)
                        /\ sameButIsCorrect(r.answers, answers)
                 /\ UNCHANGED subs
        /\ \A i \in 1..Len(inflight) :
              InsertSubmission(i)
              => /\ Len(subs') = Len(subs) + 1
                 /\ SubSeq(subs', 1, Len(subs)) = subs
                 /\ subs'[Len(subs')].assessmentId = inflight[i].assessmentId
                 /\ subs'[Len(subs')].answers = inflight[i].answers
                 /\ inflight' = RemoveAt(inflight, i)
                 /\ resp'.status = 201
        /\ \A tok \in issued, answers \in KeyInputs :
              PostAnswerKeys(tok, [assessmentId |-> FirstId,
                                   answers |-> answers])
              => UNCHANGED <<subs, inflight>>
      ]_vars

\* C26 happens: two submissions were in flight around the saving of a second
\* key; the one that looked up after it was stored first, marked by the
\* second key, and the one that looked up before it was just stored, marked
\* by the first
C26_Witness ==
    /\ resp.route = AnswersRoute
    /\ resp.status = 201
    /\ Len(keys) = 2
    /\ keys[1].assessmentId = keys[2].assessmentId
    /\ keys[1].answers # keys[2].answers
    /\ Len(subs) = 2
    /\ subs[1].assessmentId = keys[1].assessmentId
    /\ subs[2].assessmentId = keys[1].assessmentId
    /\ markedBy(subs[1].answers, keys[2].answers)
    /\ ~markedBy(subs[1].answers, keys[1].answers)
    /\ markedBy(subs[2].answers, keys[1].answers)
    /\ ~markedBy(subs[2].answers, keys[2].answers)

\* C27: every step that is not a teacher's DELETE /clear-data keeps every
\* stored submission as it was, answers and isCorrect included; a POST
\* /answer-keys that saves a key changes no submission at all.
C27_NeverRegraded ==
    [][ /\ \/ \E tok \in issued : Teacher(tok).ok /\ DeleteClearData(tok)
           \/ kept(subs, subs')
        /\ \A tok \in issued, answers \in KeyInputs :
              PostAnswerKeys(tok, [assessmentId |-> FirstId,
                                   answers |-> answers])
              => UNCHANGED subs
      ]_vars

\* C27 happens: a key was just saved that marks a stored submission of its
\* assessment otherwise than the submission is marked
C27_Witness ==
    /\ resp.route = "POST /answer-keys"
    /\ resp.status = 201
    /\ subs # <<>>
    /\ subs[1].assessmentId = keys[Len(keys)].assessmentId
    /\ ~markedBy(subs[1].answers, keys[Len(keys)].answers)
    /\ markedBy(subs[1].answers, subs[1].keyUsed)

-----------------------------------------------------------------------------
(* References under interleaving *)

\* requests that are between two of their steps, at a time
MaxInflight == 2

\* Races: the teacher saves a key and a link for the first assessment and
\* clears the data, each handler step by step, while the student and an
\* anonymous client submit
NextRace ==
    \/ \E tok \in issued :
          /\ Teacher(tok).ok
          /\ PostAssessments(tok, [name |-> "P1", questionsCount |-> 1,
                                   questions |-> <<Q(1)>>])
    \/ \E tok \in issued :
          /\ Teacher(tok).ok
          /\ Len(inflight) < MaxInflight
          /\ PostAnswerKeysExists(tok, [assessmentId |-> FirstId,
                                        answers |-> <<K(1, "A")>>])
    \/ \E i \in 1..Len(inflight) : InsertAnswerKey(i)
    \/ \E tok \in issued :
          /\ Teacher(tok).ok
          /\ Len(inflight) < MaxInflight
          /\ PostFormsExists(tok, [assessmentId |-> FirstId,
                                   requireName |-> Undefined])
    \/ \E i \in 1..Len(inflight) : InsertForm(i)
    \/ \E tok \in issued :
          /\ ~Teacher(tok).ok
          /\ Len(inflight) < MaxInflight
          /\ PostStudentAnswers(tok, [assessmentId |-> FirstId,
                                      studentName |-> <<"a">>,
                                      answers |-> <<Item(1, "A", TRUE)>>])
    \/ \E formId \in FormIds :
          /\ Len(inflight) < MaxInflight
          /\ PostFormSubmit(formId, CompleteForm)
    \/ \E i \in 1..Len(inflight) : InsertSubmission(i)
    \/ \E tok \in issued :
          /\ Teacher(tok).ok
          /\ Len(inflight) < MaxInflight
          /\ DeleteClearDataStart(tok)
    \/ \E i \in 1..Len(inflight), c \in Cleared : DeleteManyResolves(i, c)
    \/ \E i \in 1..Len(inflight) : DeleteClearDataEnd(i)

SpecRace == Init /\ [][NextRace]_vars

\* every document of the collection references a stored assessment
referenced(docs) ==
    \A i \in 1..Len(docs) : findAssessment(docs[i].assessmentId) # {}

\* C28: whenever no DELETE /clear-data is between its deletes, every stored
\* answer key, link and submission references an assessment that is stored,
\* whatever requests the clearing interleaved with.
C28_ReferentialIntegrity ==
    (\A i \in 1..Len(inflight) : inflight[i].route # ClearRoute)
    => referenced(keys) /\ referenced(forms) /\ referenced(subs)

-----------------------------------------------------------------------------
(* Concurrent signups *)

SignupRoute == "POST /auth/signup"

\* POST /auth/signup, up to and including User.findOne({email})
PostAuthSignupFindOne(body) ==
    IF body.email = <<>> \/ body.password = ""
       \/ (variant = "token" /\ body.name = "")
    THEN Refuse400(SignupRoute, NoToken,
                   IF variant = "token" THEN "Dados obrigatorios ausentes."
                   ELSE "E-mail e senha sao obrigatorios.")
    ELSE IF findUser(body.email) # {}
    THEN Refuse(SignupRoute, NoToken, Reject(409, "E-mail ja cadastrado."))
    ELSE /\ inflight' = Append(inflight,
               [route |-> SignupRoute,
                email |-> IF variant = "token"
                          THEN trim(toLowerCase(body.email)) ELSE body.email,
                passwordHash |-> hash(body.password),
                role |-> IF variant = "token"
                         THEN (IF body.role = "professor" THEN "professor"
                               ELSE "aluno")
                         ELSE (IF body.role \in {"aluno", "professor"}
                               THEN body.role ELSE Null)])
         /\ resp' = NoResp
         /\ UNCHANGED <<variant, users, issued, assessments, keys, subs,
                        forms, nextId, now>>

\* bcrypt.hash, User.create(...) and the response of POST /auth/signup
InsertUser(i) ==
    LET r == inflight[i]
        u == Len(users) + 1
    IN  /\ r.route = SignupRoute
        /\ inflight' = RemoveAt(inflight, i)
        /\ IF findUser(r.email) # {}
           THEN \* the unique index on email rejects the insert
                /\ Respond(SignupRoute, NoToken, 500,
                           IF variant = "token" THEN "Erro no cadastro."
                           ELSE "Falha no cadastro.", NoBody)
                /\ UNCHANGED <<users, issued>>
           ELSE /\ users' = Append(users,
                      [email |-> r.email, passwordHash |-> r.passwordHash,
                       role |-> r.role])
                /\ issued' = issued \cup {signToken(u, r.role)}
                /\ Respond(SignupRoute, NoToken, 201, "",
                           userBody(signToken(u, r.role), u, r.email, r.role))
        /\ UNCHANGED <<variant, assessments, keys, subs, forms, nextId, now>>

\* two addresses, already lower case and trimmed
RaceEmails == { <<"a">>, <<"b">> }
RaceInputs ==
    [name : {"n"}, email : RaceEmails, password : {"p"}, role : RoleInputs]

\* Signups that interleave: each looks the email up, then inserts
NextSignupRace ==
    \/ \E body \in RaceInputs :
          Len(inflight) < MaxInflight /\ PostAuthSignupFindOne(body)
    \/ \E i \in 1..Len(inflight) : InsertUser(i)

SpecSignupRace == InitAccount /\ [][NextSignupRace]_vars

\* C29: a signup that reaches its insert when another request has created
\* the account of that email since its lookup is answered 409 and creates
\* nothing; otherwise it creates the one account of the email.
C29_ConcurrentSignupConflict ==
    [][ \A i \in 1..Len(inflight) :
           InsertUser(i)
           => IF findUser(inflight[i].email) # {}
              THEN resp'.status = 409 /\ UNCHANGED users
              ELSE /\ resp'.status = 201
                   /\ Len(users') = Len(users) + 1
                   /\ Cardinality({u \in 1..Len(users') :
                          users'[u].email = inflight[i].email}) = 1
      ]_vars


-----------------------------------------------------------------------------
(* Refused requests *)

\* Every route, called so that each of its refusals happens: with no token,
\* a token that fails verification, the student's token and the teacher's;
\* with fields missing, with ids that find nothing and with forms left
\* incomplete; next to the requests that store the documents the refusals
\* must leave alone
RefusedSignups ==
    { [name |-> "n", email |-> <<>>, password |-> "p", role |-> "aluno"],
      [name |-> "n", email |-> <<"t">>, password |-> "p", role |-> "aluno"] }
RefusedLogins ==
    { [email |-> <<"t">>, password |-> "x"],
      [email |-> <<"a">>, password |-> "p"],
      [email |-> <<"t">>, password |-> "p"] }
RefusedForms ==
    { CompleteForm, [studentName |-> Absent, q |-> [n \in {1} |-> Undefined]] }

NextRefused ==
    \/ \E body \in RefusedSignups : PostAuthSignup(body)
    \/ \E body \in RefusedLogins : PostAuthLogin(body)
    \/ \E tok \in {NoToken, GoneToken} \cup issued, role \in {"aluno", Undefined} :
          /\ Teacher(tok).ok => role = Undefined
          /\ PostMeRole(tok, [role |-> role])
    \/ \E tok \in {NoToken} : GetAllData(tok)
    \/ \E tok \in Bearers,
          body \in { [name |-> "P1", questionsCount |-> 1,
                      questions |-> <<Q(1)>>],
                     [name |-> "P1", questionsCount |-> 2,
                      questions |-> <<Q(1)>>] } :
          PostAssessments(tok, body)
    \/ \E tok \in issued, questionIds \in { <<"q9">>, <<>> } :
          /\ variant = "token"
          /\ PostAssessmentsFromBank(tok, [name |-> BankName,
                                           questionIds |-> questionIds])
    \/ \E tok \in issued, aid \in {NoId, FirstId},
          answers \in { <<K(1, "A")>>, <<>> } :
          PostAnswerKeys(tok, [assessmentId |-> aid, answers |-> answers])
    \/ \E tok \in issued, aid \in {NoId, FirstId} :
          PostForms(tok, [assessmentId |-> aid, requireName |-> Undefined])
    \/ \E tok \in {NoToken} \cup issued, studentName \in NameInputs :
          /\ ~Teacher(tok).ok
          /\ PostStudentAnswers(tok, [assessmentId |-> FirstId,
                                      studentName |-> studentName,
                                      answers |-> <<Item(1, "A", TRUE)>>])
    \/ \E formId \in FormTokens : GetForm(formId)
    \/ \E formId \in FormTokens, body \in RefusedForms :
          PostFormSubmit(formId, body)
    \/ \E i \in 1..Len(inflight) : InsertSubmission(i)
    \/ \E tok \in Bearers : DeleteClearData(tok)

SpecRefused == Init /\ [][NextRefused]_vars

ClientErrors == {400, 401, 403, 404, 409}

\* C30: a step that answers a request with 400, 401, 403, 404 or 409 has
\* inserted, updated and deleted nothing: the users, the assessments, the
\* keys, the submissions and the links are as they were, no token was issued
\* and no write is left pending.
C30_ClientErrorChangesNothing ==
    [][ resp'.status \in ClientErrors
        => UNCHANGED <<users, issued, assessments, keys, subs, forms,
                       nextId, inflight>> ]_vars

\* a submission through a link was just refused for a blank question, with
\* an assessment, its key, its link and a submission in the store
C30_Witness ==
    /\ resp.route = "POST /form/:formId/submit"
    /\ resp.status = 400
    /\ resp.error = "Preencha todas as questoes."
    /\ assessments # <<>>
    /\ keys # <<>>
    /\ forms # <<>>
    /\ subs # <<>>

=============================================================================
